---- MODULE Spec2Model ----
(***************************************************************************)
(* A model of nnbench's benchmark runner (src/src/nnbench/runner.py):      *)
(* the interface merge and parameter validation of _check, and the         *)
(* collect / run life cycle of AbstractBenchmarkRunner.                    *)
(***************************************************************************)
EXTENDS Integers, Sequences, FiniteSets, TLC

(***************************************************************************)
(* Bounds of the model.                                                    *)
(***************************************************************************)
\* longest benchmark collection handed to _check on its own
MaxBenchmarks == 3
\* number of collect(), clear() and run() calls made on one runner
MaxCalls == 3
\* longest benchmark collection a runner holds
MaxCollected == 3
\* longest sequence of context providers handed to run()
MaxProviders == 2
\* longest sequence of context providers handed to the provider loop on its own
MaxSequence == 3
\* number of threads that call the registries at the same time
MaxThreads == 2
\* number of parts (words and dots) a file name is made of
MaxNameParts == 5

(***************************************************************************)
(* Python classes and issubclass.                                          *)
(***************************************************************************)
\* inspect.Parameter.empty: the marker of a missing annotation and of a
\* missing default. It is itself a class (inspect._empty).
empty == "empty"

\* The classes that occur as annotations and as runtime types of values.
\* list is a subclass of both collections.abc.Sized and
\* collections.abc.Iterable, which are unrelated to each other.
Classes == {"object", "Sized", "Iterable", "list", "int", empty}

\* The proper superclasses of each class.
Bases(c) ==
    CASE c = "object"   -> {}
      [] c = "Sized"    -> {"object"}
      [] c = "Iterable" -> {"object"}
      [] c = "list"     -> {"Sized", "Iterable", "object"}
      [] c = "int"      -> {"object"}
      [] c = empty      -> {"object"}

issubclass(c, d) == c = d \/ d \in Bases(c)

(***************************************************************************)
(* Values and parameters.                                                  *)
(***************************************************************************)
Names == {"x", "y"}

\* A runtime value: its class and its text.
Values == { [type |-> "int", repr |-> "1"], [type |-> "list", repr |-> "[]"] }

\* type(v)
TypeOf(v) == v.type

\* The supplied parameter mappings: dicts from some of the names to values.
ParamDicts == UNION { [D -> Values] : D \in SUBSET Names }

(***************************************************************************)
(* Benchmarks.                                                             *)
(***************************************************************************)
\* One entry of Benchmark.interface.variables: (name, type, default).
\* An unannotated parameter has typ = empty; a parameter without a default
\* has default = empty.
Var(name, typ, default) == [name |-> name, typ |-> typ, default |-> default]

\* The variables of every benchmark of a collection, in iteration order.
RECURSIVE AllVariables(_)
AllVariables(bms) ==
    IF bms = <<>> THEN <<>>
    ELSE Head(bms).variables \o AllVariables(Tail(bms))

(***************************************************************************)
(* _check: the merge of the declared interfaces, then the validation of    *)
(* the supplied parameters.                                                *)
(***************************************************************************)
NoError == [exc |-> "none", kind |-> "none", name |-> "", t1 |-> "", t2 |-> ""]

\* TypeError(f"got incompatible types {orig_type}, {typ} for parameter {name!r}")
IncompatibleTypes(orig_type, typ, name) ==
    [exc |-> "TypeError", kind |-> "got incompatible types",
     name |-> name, t1 |-> orig_type, t2 |-> typ]

\* ValueError(f"missing value for required parameter {name!r}")
MissingValue(name) ==
    [exc |-> "ValueError", kind |-> "missing value for required parameter",
     name |-> name, t1 |-> "", t2 |-> ""]

\* TypeError(f"expected type {typ} for parameter {name!r}, got {param_types[name]}")
ExpectedType(typ, name, got) ==
    [exc |-> "TypeError", kind |-> "expected type",
     name |-> name, t1 |-> typ, t2 |-> got]

\* The position of name in allvars (a dict in insertion order), 0 if absent.
IndexOf(allvars, name) ==
    IF \E k \in 1..Len(allvars) : allvars[k].name = name
    THEN CHOOSE k \in 1..Len(allvars) : allvars[k].name = name
    ELSE 0

\* MergeVar that keeps the type met first whenever the two are compatible.
MergeVar_keeptype(allvars, var) ==
    LET k == IndexOf(allvars, var.name) IN
    IF k # 0 THEN
        LET orig_type == allvars[k].typ
            orig_val  == allvars[k].default
            new_val   == IF var.default = empty THEN var.default ELSE orig_val
        IN  IF issubclass(orig_type, var.typ) \/ issubclass(var.typ, orig_type) THEN
                [error |-> NoError,
                 allvars |-> [allvars EXCEPT ![k] = Var(var.name, orig_type, new_val)]]
            ELSE
                [error |-> IncompatibleTypes(orig_type, var.typ, var.name),
                 allvars |-> allvars]
    ELSE
        [error |-> NoError, allvars |-> Append(allvars, var)]

\* MergeVar that keeps the default met first.
MergeVar_keepdefault(allvars, var) ==
    LET k == IndexOf(allvars, var.name) IN
    IF k # 0 THEN
        LET orig_type == allvars[k].typ
            orig_val  == allvars[k].default
        IN  IF issubclass(orig_type, var.typ) THEN
                [error |-> NoError, allvars |-> allvars]
            ELSE IF issubclass(var.typ, orig_type) THEN
                [error |-> NoError,
                 allvars |-> [allvars EXCEPT ![k] = Var(var.name, var.typ, orig_val)]]
            ELSE
                [error |-> IncompatibleTypes(orig_type, var.typ, var.name),
                 allvars |-> allvars]
    ELSE
        [error |-> NoError, allvars |-> Append(allvars, var)]

\* One iteration of the merge loop: var is met with allvars built so far.
MergeVar(allvars, var) ==
    LET k == IndexOf(allvars, var.name) IN
    IF k # 0 THEN
        LET orig_type == allvars[k].typ
            orig_val  == allvars[k].default
            new_val   == IF var.default = empty THEN var.default ELSE orig_val
        IN  IF issubclass(orig_type, var.typ) THEN
                [error |-> NoError,
                 allvars |-> [allvars EXCEPT ![k] = Var(var.name, orig_type, new_val)]]
            ELSE IF issubclass(var.typ, orig_type) THEN
                [error |-> NoError,
                 allvars |-> [allvars EXCEPT ![k] = Var(var.name, var.typ, new_val)]]
            ELSE
                [error |-> IncompatibleTypes(orig_type, var.typ, var.name),
                 allvars |-> allvars]
    ELSE
        [error |-> NoError, allvars |-> Append(allvars, var)]

\* The merge loop over the variables still to be met.
RECURSIVE MergeLoop(_, _)
MergeLoop(allvars, vars) ==
    IF vars = <<>> THEN [error |-> NoError, allvars |-> allvars]
    ELSE LET m == MergeVar(allvars, Head(vars)) IN
         IF m.error # NoError THEN m
         ELSE MergeLoop(m.allvars, Tail(vars))

\* The unified interface of a collection, or the conflict that stops it.
Merge(benchmarks) == MergeLoop(<<>>, AllVariables(benchmarks))

\* ValidateVar that takes every omitted name for a missing one, default or not.
ValidateVar_nodefault(params, var) ==
    IF var.name \notin DOMAIN params THEN
        MissingValue(var.name)
    ELSE IF var.typ = empty THEN
        NoError
    ELSE IF ~issubclass(TypeOf(params[var.name]), var.typ) THEN
        ExpectedType(var.typ, var.name, TypeOf(params[var.name]))
    ELSE
        NoError

\* ValidateVar that checks no type: every supplied value is accepted.
ValidateVar_notypecheck(params, var) ==
    IF var.name \notin DOMAIN params /\ var.default = empty THEN
        MissingValue(var.name)
    ELSE
        NoError

\* The checks of one unified entry against the supplied parameters.
ValidateVar(params, var) ==
    IF var.name \notin DOMAIN params /\ var.default = empty THEN
        MissingValue(var.name)
    ELSE IF var.typ = empty THEN
        NoError
    ELSE IF var.name \in DOMAIN params
            /\ ~issubclass(TypeOf(params[var.name]), var.typ) THEN
        ExpectedType(var.typ, var.name, TypeOf(params[var.name]))
    ELSE
        NoError

\* The validation loop over the unified interface, in insertion order.
RECURSIVE Validate(_, _)
Validate(params, allvars) ==
    IF allvars = <<>> THEN NoError
    ELSE LET e == ValidateVar(params, Head(allvars)) IN
         IF e # NoError THEN e ELSE Validate(params, Tail(allvars))

\* _check that returns without having checked anything.
_check_off(params, benchmarks) == NoError

\* _check(params, benchmarks): the exception it raises, NoError if none.
_check(params, benchmarks) ==
    LET m == Merge(benchmarks) IN
    IF m.error # NoError THEN m.error ELSE Validate(params, m.allvars)

(***************************************************************************)
(* The sources benchmarks are collected from.                              *)
(***************************************************************************)
Benchmark(fn, variables, tags) == [fn |-> fn, variables |-> variables, tags |-> tags]

double == Benchmark("double", <<Var("x", "int", empty)>>, {"fast"})
add    == Benchmark("add", <<Var("x", "int", empty), Var("y", "int", empty)>>, {})
mul    == Benchmark("mul", <<Var("y", "int", "1")>>, {"fast"})
first  == Benchmark("first", <<Var("x", "list", empty)>>, {})

\* The tag filters run() and collect() are called with.
Tags == {{}, {"fast"}}

\* The names run() and collect() are called with.
Paths == {"__main__", "a.py", "b.py", "dup.py", "dir", "nowhere"}

\* ismodule(path_or_module): the name of an imported module
ismodule(path) == path = "__main__"

is_dir(path) == path = "dir"

is_file(path) == path \in {"a.py", "b.py", "dup.py", "notes.txt"}

\* ppath.iterdir()
iterdir(path) == IF path = "dir" THEN {"a.py", "b.py", "notes.txt"} ELSE {}

\* p.suffix == ".py"
IsPy(path) == path \in {"a.py", "b.py", "dup.py"}

\* module.__dict__.items() of the module a name or file is loaded as: each
\* member is a Benchmark, a container (tuple, list) or anything else.
ModuleDict(path) ==
    CASE path = "a.py" ->
            << [k |-> "__name__", kind |-> "other", v |-> <<>>],
               [k |-> "double", kind |-> "benchmark", v |-> <<double>>],
               [k |-> "N", kind |-> "other", v |-> <<>>],
               [k |-> "add", kind |-> "benchmark", v |-> <<add>>] >>
      [] path = "b.py" ->
            << [k |-> "__name__", kind |-> "other", v |-> <<>>],
               [k |-> "family", kind |-> "container", v |-> <<mul>>] >>
      [] path = "dup.py" ->
            << [k |-> "double", kind |-> "benchmark", v |-> <<double>>],
               [k |-> "first", kind |-> "benchmark", v |-> <<first>>] >>
      [] OTHER ->
            << [k |-> "__name__", kind |-> "other", v |-> <<>>],
               [k |-> "__doc__", kind |-> "other", v |-> <<>>] >>

\* isdunder(s)
isdunder(s) == s \in {"__name__", "__doc__"}

\* The sequences that enumerate a finite set, each element once.
Orderings(S) ==
    { o \in [1..Cardinality(S) -> S] : \A a, b \in DOMAIN o : a # b => o[a] # o[b] }

SelectSeqByTags(bms, tags) ==
    LET Keep(b) == tags \subseteq b.tags IN SelectSeq(bms, Keep)

\* The members of a module that collect registers, in __dict__ order.
RECURSIVE Registered(_)
Registered(items) ==
    IF items = <<>> THEN <<>>
    ELSE LET it == Head(items) IN
         (IF isdunder(it.k) THEN <<>>
          ELSE IF it.kind \in {"benchmark", "container"} THEN it.v
          ELSE <<>>) \o Registered(Tail(items))

\* collect() of one module or file: register its members, then filter the
\* whole collection by tags.
CollectModule(bms, path, tags) ==
    SelectSeqByTags(bms \o Registered(ModuleDict(path)), tags)

\* collect() of the files of a directory, one recursive call each, which
\* passes no tags.
RECURSIVE CollectFiles(_, _)
CollectFiles(bms, files) ==
    IF files = <<>> THEN bms
    ELSE CollectFiles(CollectModule(bms, Head(files), {}), Tail(files))

\* ValueError("expected a module name, Python file, or directory, got ...")
BadPath(path) ==
    [exc |-> "ValueError", kind |-> "expected a module name, Python file, or directory",
     name |-> path, t1 |-> "", t2 |-> ""]

\* collect(path_or_module, tags) on a runner holding bms; files is the order
\* in which iterdir() yields the Python files of a directory.
collect(bms, path, tags, files) ==
    IF ismodule(path) THEN
        [error |-> NoError, benchmarks |-> CollectModule(bms, path, tags)]
    ELSE IF is_dir(path) THEN
        [error |-> NoError, benchmarks |-> CollectFiles(bms, files)]
    ELSE IF is_file(path) THEN
        [error |-> NoError, benchmarks |-> CollectModule(bms, path, tags)]
    ELSE
        [error |-> BadPath(path), benchmarks |-> bms]

\* The orders iterdir() can yield the Python files of path in.
PyFiles(path) == Orderings({f \in iterdir(path) : IsPy(f)})

(***************************************************************************)
(* The hooks and providers a run calls.                                    *)
(***************************************************************************)
\* The messages of the exceptions a setUp, a benchmark function, a tearDown
\* or a context provider raises.
Messages == {"boom"}

\* Exception(msg)
Raised(msg) == [exc |-> "Exception", kind |-> msg, name |-> "", t1 |-> "", t2 |-> ""]

\* str(e)
str(e) == e.kind

\* What a call does: it returns, or raises an exception with a message.
Outcomes == {"ok"} \cup Messages

\* The values a benchmark function returns.
ReturnValues == {"42"}

\* What the context providers return.
ProviderPool == { [a |-> "1"], [a |-> "2"], [b |-> "2"] }

Contexts == UNION { [1..k -> ProviderPool] : k \in 0..MaxProviders }

\* ValueError(f"got multiple values for context key(s) {...}")
MultipleValues(sec) ==
    [exc |-> "ValueError", kind |-> "got multiple values for context key(s)",
     name |-> sec, t1 |-> "", t2 |-> ""]

\* ctx |= ctxval
DictUnion(d, e) ==
    [k \in DOMAIN d \cup DOMAIN e |-> IF k \in DOMAIN e THEN e[k] ELSE d[k]]

\* The names of the parameters of benchmark.fn: sig.parameters
Parameters(bm) == { bm.variables[k].name : k \in DOMAIN bm.variables }

\* Project that hands every supplied parameter to every benchmark.
Project_all(params, bm) == params

\* {k: v for k, v in dparams.items() if k in sig.parameters}
Project(params, bm) ==
    [k \in DOMAIN params \cap Parameters(bm) |-> params[k]]

\* dict(): the empty mapping
EmptyDict == <<>>

(***************************************************************************)
(* The state of a runner and of the call made on it.                       *)
(***************************************************************************)
VARIABLES
    benchmarks,  \* self.benchmarks
    calls,       \* the number of calls made on the runner
    pc,          \* where the call stands: "idle" before the first call,
                 \* "provider", "setUp", "fn", "tearDown" inside run(),
                 \* "returned", "none", "raised" once the call is over,
                 \* "merge", "validate" inside _check when it is run alone
    dparams,     \* run(): the supplied parameters
    context,     \* run(): the context providers
    allvars,     \* _check(): the unified interface
    ctx,         \* run(): the merged context
    ctxkeys,     \* run(): the keys of the merged context
    p,           \* run(): the provider the loop is at
    i,           \* run(): the benchmark the loop is at
    bmparams,    \* run(): the parameters of the benchmark the loop is at
    res,         \* run(): the outcome of the benchmark the loop is at
    results,     \* run(): the outcomes so far
    result,      \* what the call returned
    error,       \* the exception the call raised
    log,         \* the calls of providers and hooks made by run(), in order
    failures     \* history: the number of run() calls made on the runner
                 \* so far that raised an error of _check (counted where
                 \* run() is the only call made on the runner)

\* The module state of nnbench.reporter.file and the calls made on it.
VARIABLES
    _file_drivers,      \* the registry of the file drivers: name -> (ser, de)
    _compressions,      \* the registry of the compressions: name -> callable
    _file_driver_lock,  \* _file_driver_lock.locked()
    _compression_lock,  \* _compression_lock.locked()
    threads,            \* the calls made on the module, one per thread: the
                        \* function called, its arguments, where the call
                        \* stands ("call" before its first step, "acquire"
                        \* at the with statement, "locked" inside it, "done"
                        \* or "raised" once over) and what it returned or
                        \* raised
    latest              \* history: per registry and name, the implementation
                        \* of the last registration that went through, if no
                        \* deregistration of the name followed it

runnervars == <<benchmarks, calls, pc, dparams, context, allvars, ctx, ctxkeys, p, i,
                bmparams, res, results, result, error, log, failures>>

regvars == <<_file_drivers, _compressions, _file_driver_lock, _compression_lock, threads,
             latest>>

vars == <<runnervars, regvars>>

None == "None"

\* The (ser, de) pair of a builtin file driver.
BuiltinSerDe(name) == <<name \o "_save", name \o "_load">>

\* The module after its import: the builtin drivers and compressions are
\* registered and the locks are free.
Imported ==
    /\ _file_drivers = [name \in {"yaml", "json", "csv"} |-> BuiltinSerDe(name)]
    /\ _compressions = [name \in {"gzip", "bz2"} |-> name \o "_compression"]
    /\ _file_driver_lock = FALSE
    /\ _compression_lock = FALSE
    /\ latest = [drivers |-> [name \in {"yaml", "json", "csv"} |-> BuiltinSerDe(name)],
                 compressions |-> [name \in {"gzip", "bz2"} |-> name \o "_compression"]]

\* The locals of a call before it has done anything.
FreshCall ==
    /\ dparams = EmptyDict
    /\ context = <<>>
    /\ allvars = <<>>
    /\ ctx = EmptyDict
    /\ ctxkeys = {}
    /\ p = 0
    /\ i = 0
    /\ bmparams = EmptyDict
    /\ res = EmptyDict
    /\ results = <<>>
    /\ result = None
    /\ error = NoError
    /\ log = <<>>

\* AbstractBenchmarkRunner(): a runner without benchmarks
Init ==
    /\ benchmarks = <<>>
    /\ calls = 0
    /\ failures = 0
    /\ pc = "idle"
    /\ FreshCall
    /\ Imported
    /\ threads = <<>>

\* The last call is over: it returned a result, returned None or raised.
Over == pc \in {"returned", "none", "raised"}

\* An entry of the log.
Call(what, of, args, outcome) ==
    [call |-> what, of |-> of, args |-> args, outcome |-> outcome]

(***************************************************************************)
(* collect() and clear() called on the runner.                             *)
(***************************************************************************)
\* The locals of a call that is over, or has not used them.
ResetCall ==
    /\ dparams' = EmptyDict
    /\ context' = <<>>
    /\ allvars' = <<>>
    /\ ctx' = EmptyDict
    /\ ctxkeys' = {}
    /\ p' = 0
    /\ i' = 0
    /\ bmparams' = EmptyDict
    /\ res' = EmptyDict
    /\ results' = <<>>
    /\ log' = <<>>

\* The caller is done with the outcome of the last call and goes on to its
\* next call on the same runner.
NextCall ==
    /\ Over
    /\ UNCHANGED regvars
    /\ calls < MaxCalls
    /\ pc' = "idle"
    /\ error' = NoError
    /\ result' = None
    /\ ResetCall
    /\ UNCHANGED <<benchmarks, calls, failures>>

\* runner.collect(path, tags)
Collect(path, tags, files) ==
    /\ pc = "idle"
    /\ UNCHANGED regvars
    /\ calls < MaxCalls
    /\ LET c == collect(benchmarks, path, tags, files) IN
       /\ Len(c.benchmarks) <= MaxCollected
       /\ benchmarks' = c.benchmarks
       /\ error' = c.error
       /\ pc' = IF c.error = NoError THEN "none" ELSE "raised"
    /\ calls' = calls + 1
    /\ UNCHANGED failures
    /\ result' = None
    /\ ResetCall

\* Clear that leaves the collection as it is.
Clear_noop ==
    /\ pc = "idle"
    /\ UNCHANGED regvars
    /\ calls < MaxCalls
    /\ benchmarks' = benchmarks
    /\ calls' = calls + 1
    /\ UNCHANGED failures
    /\ pc' = "none"
    /\ error' = NoError
    /\ result' = None
    /\ ResetCall

\* runner.clear()
Clear ==
    /\ pc = "idle"
    /\ UNCHANGED regvars
    /\ calls < MaxCalls
    /\ benchmarks' = <<>>
    /\ calls' = calls + 1
    /\ UNCHANGED failures
    /\ pc' = "none"
    /\ error' = NoError
    /\ result' = None
    /\ ResetCall

(***************************************************************************)
(* run()                                                                   *)
(***************************************************************************)
\* The call raises e to its caller.
Raise(e) ==
    /\ pc' = "raised"
    /\ error' = e
    /\ result' = None

\* BenchmarkResult(context=ctx, benchmarks=results)
BenchmarkResult(c, r) == [context |-> c, benchmarks |-> r]

\* RunBegin without the early return: a run on an empty collection goes on
\* to _check, to the providers and to a result without outcomes.
RunBegin_noreturn ==
    /\ pc = "idle"
    /\ UNCHANGED regvars
    /\ calls < MaxCalls
    /\ calls' = calls + 1
    /\ ctx' = EmptyDict
    /\ ctxkeys' = {}
    /\ bmparams' = EmptyDict
    /\ res' = EmptyDict
    /\ results' = <<>>
    /\ log' = <<>>
    /\ \E path \in Paths, tags \in Tags : \E files \in PyFiles(path) :
       LET c == IF benchmarks = <<>>
                THEN collect(benchmarks, path, tags, files)
                ELSE [error |-> NoError, benchmarks |-> benchmarks]
       IN
       /\ Len(c.benchmarks) <= MaxCollected
       /\ benchmarks' = c.benchmarks
       /\ \E params \in ParamDicts :
          LET m == Merge(c.benchmarks)
              e == _check(params, c.benchmarks)
          IN
          \E ctxt \in Contexts :
             IF c.error # NoError THEN
                 /\ Raise(c.error)
                 /\ dparams' = EmptyDict /\ context' = ctxt /\ allvars' = <<>>
                 /\ p' = 0 /\ i' = 0
             ELSE IF e # NoError THEN
                 /\ Raise(e)
                 /\ dparams' = params /\ context' = ctxt /\ allvars' = m.allvars
                 /\ p' = 0 /\ i' = 0
             ELSE
                 /\ error' = NoError
                 /\ dparams' = params /\ context' = ctxt /\ allvars' = m.allvars
                 /\ IF ctxt # <<>>
                    THEN pc' = "provider" /\ p' = 1 /\ i' = 0 /\ result' = None
                    ELSE IF c.benchmarks # <<>>
                    THEN pc' = "setUp" /\ p' = 0 /\ i' = 1 /\ result' = None
                    ELSE /\ pc' = "returned" /\ p' = 0 /\ i' = 0
                         /\ result' = BenchmarkResult(EmptyDict, <<>>)

\* RunBegin that collects on every call, whether the runner holds benchmarks
\* or not.
RunBegin_recollect ==
    /\ pc = "idle"
    /\ UNCHANGED regvars
    /\ calls < MaxCalls
    /\ calls' = calls + 1
    /\ ctx' = EmptyDict
    /\ ctxkeys' = {}
    /\ bmparams' = EmptyDict
    /\ res' = EmptyDict
    /\ results' = <<>>
    /\ log' = <<>>
    /\ \E path \in Paths, tags \in Tags : \E files \in PyFiles(path) :
       LET c == collect(benchmarks, path, tags, files)
       IN
       /\ Len(c.benchmarks) <= MaxCollected
       /\ benchmarks' = c.benchmarks
       /\ \E params \in ParamDicts :
          LET m == Merge(c.benchmarks)
              e == _check(params, c.benchmarks)
          IN
          \E ctxt \in Contexts :
             IF c.error # NoError THEN
                 /\ Raise(c.error)
                 /\ dparams' = EmptyDict /\ context' = ctxt /\ allvars' = <<>>
                 /\ p' = 0 /\ i' = 0
             ELSE IF c.benchmarks = <<>> THEN
                 /\ pc' = "none" /\ error' = NoError /\ result' = None
                 /\ dparams' = EmptyDict /\ context' = ctxt /\ allvars' = <<>>
                 /\ p' = 0 /\ i' = 0
             ELSE IF e # NoError THEN
                 /\ Raise(e)
                 /\ dparams' = params /\ context' = ctxt /\ allvars' = m.allvars
                 /\ p' = 0 /\ i' = 0
             ELSE
                 /\ error' = NoError /\ result' = None
                 /\ dparams' = params /\ context' = ctxt /\ allvars' = m.allvars
                 /\ IF ctxt # <<>>
                    THEN pc' = "provider" /\ p' = 1 /\ i' = 0
                    ELSE pc' = "setUp" /\ p' = 0 /\ i' = 1

\* run(path, params, tags, context) up to its first call of a provider or
\* of a hook: the collection if the runner holds no benchmarks, the early
\* return, and _check.
RunBegin ==
    /\ pc = "idle"
    /\ UNCHANGED regvars
    /\ calls < MaxCalls
    /\ calls' = calls + 1
    /\ ctx' = EmptyDict
    /\ ctxkeys' = {}
    /\ bmparams' = EmptyDict
    /\ res' = EmptyDict
    /\ results' = <<>>
    /\ log' = <<>>
    /\ \E path \in Paths, tags \in Tags : \E files \in PyFiles(path) :
       LET c == IF benchmarks = <<>>
                THEN collect(benchmarks, path, tags, files)
                ELSE [error |-> NoError, benchmarks |-> benchmarks]
       IN
       /\ Len(c.benchmarks) <= MaxCollected
       /\ benchmarks' = c.benchmarks
       /\ \E params \in ParamDicts :
          LET m == Merge(c.benchmarks)
              e == _check(params, c.benchmarks)
          IN
          \E ctxt \in Contexts :
             IF c.error # NoError THEN
                 /\ Raise(c.error)
                 /\ dparams' = EmptyDict /\ context' = ctxt /\ allvars' = <<>>
                 /\ p' = 0 /\ i' = 0
             ELSE IF c.benchmarks = <<>> THEN
                 /\ pc' = "none" /\ error' = NoError /\ result' = None
                 /\ dparams' = EmptyDict /\ context' = ctxt /\ allvars' = <<>>
                 /\ p' = 0 /\ i' = 0
             ELSE IF e # NoError THEN
                 /\ Raise(e)
                 /\ dparams' = params /\ context' = ctxt /\ allvars' = m.allvars
                 /\ p' = 0 /\ i' = 0
             ELSE
                 /\ error' = NoError /\ result' = None
                 /\ dparams' = params /\ context' = ctxt /\ allvars' = m.allvars
                 /\ IF ctxt # <<>>
                    THEN pc' = "provider" /\ p' = 1 /\ i' = 0
                    ELSE pc' = "setUp" /\ p' = 0 /\ i' = 1

\* Provider with a later contribution overwriting the keys of an earlier
\* one instead of being rejected.
Provider_overwrite(outcome) ==
    /\ pc = "provider"
    /\ UNCHANGED regvars
    /\ log' = Append(log, Call("provider", p, EmptyDict, outcome))
    /\ UNCHANGED <<benchmarks, calls, failures, dparams, context, allvars, bmparams, res, results>>
    /\ IF outcome # "ok" THEN
           /\ Raise(Raised(outcome))
           /\ UNCHANGED <<ctx, ctxkeys, p, i>>
       ELSE
           /\ ctx' = DictUnion(ctx, context[p])
           /\ ctxkeys' = ctxkeys \cup DOMAIN context[p]
           /\ UNCHANGED <<error, result>>
           /\ IF p < Len(context)
              THEN pc' = "provider" /\ p' = p + 1 /\ i' = i
              ELSE pc' = "setUp" /\ p' = p + 1 /\ i' = 1

\* Provider with a provider that raised called again instead of its
\* exception reaching the caller.
Provider_retry(outcome) ==
    /\ pc = "provider"
    /\ UNCHANGED regvars
    /\ log' = Append(log, Call("provider", p, EmptyDict, outcome))
    /\ UNCHANGED <<benchmarks, calls, failures, dparams, context, allvars, bmparams, res, results>>
    /\ IF outcome # "ok" THEN
           /\ pc' = "provider"
           /\ UNCHANGED <<ctx, ctxkeys, p, i, error, result>>
       ELSE
           LET ctxval  == context[p]
               valkeys == DOMAIN ctxval
               sec     == ctxkeys \cap valkeys
           IN  IF sec # {} THEN
                   /\ Raise(MultipleValues(sec))
                   /\ UNCHANGED <<ctx, ctxkeys, p, i>>
               ELSE
                   /\ ctx' = DictUnion(ctx, ctxval)
                   /\ ctxkeys' = ctxkeys \cup valkeys
                   /\ UNCHANGED <<error, result>>
                   /\ IF p < Len(context)
                      THEN pc' = "provider" /\ p' = p + 1 /\ i' = i
                      ELSE pc' = "setUp" /\ p' = p + 1 /\ i' = 1

\* One iteration of the provider loop: the provider is called and either
\* raises, or returns a contribution that is merged or rejected.
Provider(outcome) ==
    /\ pc = "provider"
    /\ UNCHANGED regvars
    /\ log' = Append(log, Call("provider", p, EmptyDict, outcome))
    /\ UNCHANGED <<benchmarks, calls, failures, dparams, context, allvars, bmparams, res, results>>
    /\ IF outcome # "ok" THEN
           /\ Raise(Raised(outcome))
           /\ UNCHANGED <<ctx, ctxkeys, p, i>>
       ELSE
           LET ctxval  == context[p]
               valkeys == DOMAIN ctxval
               sec     == ctxkeys \cap valkeys
           IN  IF sec # {} THEN
                   /\ Raise(MultipleValues(sec))
                   /\ UNCHANGED <<ctx, ctxkeys, p, i>>
               ELSE
                   /\ ctx' = DictUnion(ctx, ctxval)
                   /\ ctxkeys' = ctxkeys \cup valkeys
                   /\ UNCHANGED <<error, result>>
                   /\ IF p < Len(context)
                      THEN pc' = "provider" /\ p' = p + 1 /\ i' = i
                      ELSE pc' = "setUp" /\ p' = p + 1 /\ i' = 1

\* d[k] = v
SetItem(d, k, v) == [x \in DOMAIN d \cup {k} |-> IF x = k THEN v ELSE d[x]]

\* Except with the message of the exception left out of the outcome.
Except_flagonly(r, e) == SetItem(r, "error_occurred", "True")

\* Except with a null value recorded next to the error.
Except_withvalue(r, e) ==
    SetItem(SetItem(SetItem(r, "error_occurred", "True"), "error_message", str(e)),
            "value", None)

\* The handler of an exception e of setUp or of the benchmark function.
\* The values of an outcome are written as text: "True" is Python's True.
Except(r, e) ==
    SetItem(SetItem(r, "error_occurred", "True"), "error_message", str(e))

\* SetUp with tearDown called on the path without an exception only: an
\* exception of setUp ends the iteration at once.
SetUp_nofinally(outcome) ==
    /\ pc = "setUp"
    /\ UNCHANGED regvars
    /\ LET bm == benchmarks[i]
           bp == Project(dparams, bm)
       IN
       /\ bmparams' = bp
       /\ log' = Append(log, Call("setUp", i, bp, outcome))
       /\ IF outcome = "ok" THEN
              /\ res' = EmptyDict
              /\ pc' = "fn"
              /\ UNCHANGED <<i, results, result>>
          ELSE
              /\ res' = Except(EmptyDict, Raised(outcome))
              /\ results' = Append(results, Except(EmptyDict, Raised(outcome)))
              /\ IF i < Len(benchmarks)
                 THEN i' = i + 1 /\ pc' = "setUp" /\ result' = None
                 ELSE /\ i' = i
                      /\ pc' = "returned"
                      /\ result' = BenchmarkResult(ctx,
                                      Append(results, Except(EmptyDict, Raised(outcome))))
    /\ UNCHANGED <<benchmarks, calls, failures, dparams, context, allvars, ctx, ctxkeys, p, error>>

\* The start of one iteration of the benchmark loop: the projection of the
\* parameters and the call of benchmark.setUp.
SetUp(outcome) ==
    /\ pc = "setUp"
    /\ UNCHANGED regvars
    /\ LET bm == benchmarks[i]
           bp == Project(dparams, bm)
       IN
       /\ bmparams' = bp
       /\ log' = Append(log, Call("setUp", i, bp, outcome))
       /\ IF outcome = "ok" THEN
              /\ res' = EmptyDict
              /\ pc' = "fn"
          ELSE
              /\ res' = Except(EmptyDict, Raised(outcome))
              /\ pc' = "tearDown"
    /\ UNCHANGED <<benchmarks, calls, failures, dparams, context, allvars, ctx, ctxkeys, p, i,
                   results, result, error>>

\* The call of the benchmark function, after setUp has returned.
Fn(outcome) ==
    /\ pc = "fn"
    /\ UNCHANGED regvars
    /\ LET bm    == benchmarks[i]
           named == SetItem(res, "name", bm.fn)
       IN
       /\ log' = Append(log, Call("fn", i, bmparams, outcome))
       /\ IF outcome \in ReturnValues
          THEN res' = SetItem(named, "value", outcome)
          ELSE res' = Except(named, Raised(outcome))
    /\ pc' = "tearDown"
    /\ UNCHANGED <<benchmarks, calls, failures, dparams, context, allvars, ctx, ctxkeys, p, i,
                   bmparams, results, result, error>>

\* TearDown with an exception of tearDown recorded in the outcome like one
\* of setUp or of the benchmark function, the loop going on.
TearDown_isolated(outcome) ==
    /\ pc = "tearDown"
    /\ UNCHANGED regvars
    /\ log' = Append(log, Call("tearDown", i, bmparams, outcome))
    /\ UNCHANGED <<benchmarks, calls, failures, dparams, context, allvars, ctx, ctxkeys, p,
                   bmparams>>
    /\ LET o == IF outcome # "ok" THEN Except(res, Raised(outcome)) ELSE res IN
       /\ results' = Append(results, o)
       /\ error' = NoError
       /\ IF i < Len(benchmarks) THEN
              /\ i' = i + 1
              /\ res' = EmptyDict
              /\ pc' = "setUp"
              /\ result' = None
          ELSE
              /\ res' = o
              /\ UNCHANGED i
              /\ pc' = "returned"
              /\ result' = BenchmarkResult(ctx, Append(results, o))

\* TearDown with the outcome put in front of the outcomes so far.
TearDown_prepend(outcome) ==
    /\ pc = "tearDown"
    /\ UNCHANGED regvars
    /\ log' = Append(log, Call("tearDown", i, bmparams, outcome))
    /\ UNCHANGED <<benchmarks, calls, failures, dparams, context, allvars, ctx, ctxkeys, p,
                   bmparams>>
    /\ IF outcome # "ok" THEN
           /\ Raise(Raised(outcome))
           /\ UNCHANGED <<i, res, results>>
       ELSE
           /\ results' = <<res>> \o results
           /\ error' = NoError
           /\ IF i < Len(benchmarks) THEN
                  /\ i' = i + 1
                  /\ res' = EmptyDict
                  /\ pc' = "setUp"
                  /\ result' = None
              ELSE
                  /\ UNCHANGED <<i, res>>
                  /\ pc' = "returned"
                  /\ result' = BenchmarkResult(ctx, <<res>> \o results)

\* The finally clause: the call of benchmark.tearDown, then the outcome is
\* appended and the loop goes on, or run() returns after the last benchmark.
TearDown(outcome) ==
    /\ pc = "tearDown"
    /\ UNCHANGED regvars
    /\ log' = Append(log, Call("tearDown", i, bmparams, outcome))
    /\ UNCHANGED <<benchmarks, calls, failures, dparams, context, allvars, ctx, ctxkeys, p,
                   bmparams>>
    /\ IF outcome # "ok" THEN
           /\ Raise(Raised(outcome))
           /\ UNCHANGED <<i, res, results>>
       ELSE
           /\ results' = Append(results, res)
           /\ error' = NoError
           /\ IF i < Len(benchmarks) THEN
                  /\ i' = i + 1
                  /\ res' = EmptyDict
                  /\ pc' = "setUp"
                  /\ result' = None
              ELSE
                  /\ UNCHANGED <<i, res>>
                  /\ pc' = "returned"
                  /\ result' = BenchmarkResult(ctx, Append(results, res))

Next ==
    \/ NextCall
    \/ \E path \in Paths, tags \in Tags :
          \E files \in PyFiles(path) : Collect(path, tags, files)
    \/ Clear
    \/ RunBegin /\ UNCHANGED failures
    \/ \E outcome \in Outcomes : Provider(outcome)
    \/ \E outcome \in Outcomes : SetUp(outcome)
    \/ \E outcome \in ReturnValues \cup Messages : Fn(outcome)
    \/ \E outcome \in Outcomes : TearDown(outcome)

Spec == Init /\ [][Next]_vars

(***************************************************************************)
(* A runner on which run() is called again and again, and nothing else.    *)
(***************************************************************************)
\* The call has raised an error of _check.
CheckRaised(state, e) ==
    /\ state = "raised"
    /\ e.kind \in {IncompatibleTypes("", "", "").kind, MissingValue("").kind,
                    ExpectedType("", "", "").kind}

NextRuns ==
    \/ NextCall
    \/ /\ RunBegin
       /\ failures' = IF CheckRaised(pc', error') THEN failures + 1 ELSE failures
    \/ \E outcome \in Outcomes : Provider(outcome)
    \/ \E outcome \in Outcomes : SetUp(outcome)
    \/ \E outcome \in ReturnValues \cup Messages : Fn(outcome)
    \/ \E outcome \in Outcomes : TearDown(outcome)

SpecRuns == Init /\ [][NextRuns]_vars

(***************************************************************************)
(* _check on its own, on the collections of benchmarks of one parameter    *)
(* each: what _check does depends on the variables of the collection in    *)
(* iteration order only.                                                   *)
(***************************************************************************)
\* The annotations of the signatures: empty is a missing annotation.
Annotations == {"object", "Sized", "Iterable", "list", empty}

\* The defaults of the signatures: empty is a missing default.
Defaults == {empty, "None"}

Signatures ==
    { Benchmark("bm", <<Var(n, t, d)>>, {}) :
        n \in Names, t \in Annotations, d \in Defaults }

Collections == UNION { [1..k -> Signatures] : k \in 1..MaxBenchmarks }

InitCheck ==
    /\ benchmarks \in Collections
    /\ calls = 0
    /\ failures = 0
    /\ pc = "merge"
    /\ FreshCall
    /\ Imported
    /\ threads = <<>>

\* The first loop of _check: the merge of the declared interfaces.
CheckMerge ==
    /\ pc = "merge"
    /\ UNCHANGED regvars
    /\ LET m == Merge(benchmarks) IN
       /\ allvars' = m.allvars
       /\ error' = m.error
       /\ pc' = IF m.error = NoError THEN "validate" ELSE "raised"
    /\ UNCHANGED <<benchmarks, calls, failures, dparams, context, ctx, ctxkeys, p, i, bmparams,
                   res, results, result, log>>

\* The second loop of _check: the validation of the supplied parameters.
CheckValidate(params) ==
    /\ pc = "validate"
    /\ UNCHANGED regvars
    /\ dparams' = params
    /\ LET e == Validate(params, allvars) IN
       /\ error' = e
       /\ pc' = IF e = NoError THEN "returned" ELSE "raised"
    /\ UNCHANGED <<benchmarks, calls, failures, allvars, context, ctx, ctxkeys, p, i, bmparams,
                   res, results, result, log>>

NextCheck ==
    \/ CheckMerge
    \/ \E params \in ParamDicts : CheckValidate(params)

SpecCheck == InitCheck /\ [][NextCheck]_vars

(***************************************************************************)
(* The provider loop of run() on its own, on the sequences of providers    *)
(* whose contributions hold any of two keys: run() stands after _check,    *)
(* with one benchmark collected, and the loop ends at the first setUp.     *)
(***************************************************************************)
\* The keys of the contributions.
ContextKeys == {"a", "b"}

\* What a provider returns: a dict over some of the keys.
Contributions == UNION { [D -> {"1"}] : D \in SUBSET ContextKeys }

ProviderSequences == UNION { [1..k -> Contributions] : k \in 1..MaxSequence }

InitContext ==
    /\ benchmarks = <<double>>
    /\ calls = 1
    /\ failures = 0
    /\ pc = "provider"
    /\ dparams = [n \in {"x"} |-> [type |-> "int", repr |-> "1"]]
    /\ context \in ProviderSequences
    /\ allvars = Merge(<<double>>).allvars
    /\ ctx = EmptyDict
    /\ ctxkeys = {}
    /\ p = 1
    /\ i = 0
    /\ bmparams = EmptyDict
    /\ res = EmptyDict
    /\ results = <<>>
    /\ result = None
    /\ error = NoError
    /\ log = <<>>
    /\ Imported
    /\ threads = <<>>

NextContext == \E outcome \in Outcomes : Provider(outcome)

SpecContext == InitContext /\ [][NextContext]_vars

(***************************************************************************)
(* The registries of nnbench.reporter.file under concurrent calls: every   *)
(* thread makes one call of a register, deregister or get function. A      *)
(* step of a thread is what it does without another thread running in      *)
(* between: a test or an update of a dict, the entry into a with           *)
(* statement, the exit from it.                                            *)
(***************************************************************************)
DriverFunctions ==
    {"register_driver_implementation", "deregister_driver_implementation",
     "get_driver_implementation"}

CompressionFunctions ==
    {"register_compression", "deregister_compression", "get_compression_algorithm"}

RegisterFunctions == {"register_driver_implementation", "register_compression"}

DeregisterFunctions == {"deregister_driver_implementation", "deregister_compression"}

GetFunctions == {"get_driver_implementation", "get_compression_algorithm"}

\* The names the functions are called with: a builtin and a plugin each.
DriverNames == {"json", "parquet"}

CompressionNames == {"gzip", "zstd"}

\* The impl argument of the call of thread t.
ImplOf(t, op) ==
    IF op \in DriverFunctions
    THEN <<"save" \o ToString(t), "load" \o ToString(t)>>
    ELSE "compression" \o ToString(t)

\* What a call returned or raised.
NoReturn == [exc |-> "none", value |-> None]

Return(v) == [exc |-> "none", value |-> v]

\* RuntimeError(f"driver {name!r} is already registered. ...")
AlreadyRegistered(name) == [exc |-> "RuntimeError", value |-> name]

\* KeyError(f"unsupported file format {name!r}"),
\* KeyError(f"unsupported compression algorithm {name!r}")
Unsupported(name) == [exc |-> "KeyError", value |-> name]

\* A call before its first step.
RegistryCall(op, name, clobber) ==
    [op |-> op, name |-> name, clobber |-> clobber, pc |-> "call", ret |-> NoReturn]

RegistryCalls ==
    { RegistryCall(op, name, clobber) :
        op \in RegisterFunctions, name \in DriverNames \cup CompressionNames,
        clobber \in BOOLEAN }
    \cup
    { RegistryCall(op, name, FALSE) :
        op \in DeregisterFunctions \cup GetFunctions,
        name \in DriverNames \cup CompressionNames }

\* The calls whose name is one of the names of its registry.
WellNamed(c) ==
    IF c.op \in DriverFunctions THEN c.name \in DriverNames
    ELSE c.name \in CompressionNames

\* The registry and the lock a function works on.
RegistryOf(op) == IF op \in DriverFunctions THEN _file_drivers ELSE _compressions

LockOf(op) == IF op \in DriverFunctions THEN _file_driver_lock ELSE _compression_lock

SetRegistry(op, d) ==
    IF op \in DriverFunctions
    THEN _file_drivers' = d /\ UNCHANGED _compressions
    ELSE _compressions' = d /\ UNCHANGED _file_drivers

SetLock(op, locked) ==
    IF op \in DriverFunctions
    THEN _file_driver_lock' = locked /\ UNCHANGED _compression_lock
    ELSE _compression_lock' = locked /\ UNCHANGED _file_driver_lock

\* d.pop(name): d without the key name
Pop(d, name) == [k \in DOMAIN d \ {name} |-> d[k]]

\* The history of the registry a function works on.
LatestOf(op) == IF op \in DriverFunctions THEN latest.drivers ELSE latest.compressions

\* The history after a registration under name went through.
NoteRegistered(op, name, impl) ==
    LET l == LatestOf(op)
        n == [k \in DOMAIN l \cup {name} |-> IF k = name THEN impl ELSE l[k]]
    IN  latest' = IF op \in DriverFunctions THEN [latest EXCEPT !.drivers = n]
                  ELSE [latest EXCEPT !.compressions = n]

\* The history after a deregistration of name.
NoteDeregistered(op, name) ==
    LET l == LatestOf(op)
        n == [k \in DOMAIN l \ {name} |-> l[k]]
    IN  latest' = IF op \in DriverFunctions THEN [latest EXCEPT !.drivers = n]
                  ELSE [latest EXCEPT !.compressions = n]

InitRegistry ==
    /\ benchmarks = <<>>
    /\ calls = 0
    /\ failures = 0
    /\ pc = "idle"
    /\ FreshCall
    /\ Imported
    /\ threads \in [1..MaxThreads -> { c \in RegistryCalls : WellNamed(c) }]

\* register_driver_implementation, register_compression: the test
\* `name in registry and not clobber`, made before the with statement.
RegisterCheck(t) ==
    /\ threads[t].pc = "call"
    /\ threads[t].op \in RegisterFunctions
    /\ LET c == threads[t] IN
       IF c.name \in DOMAIN RegistryOf(c.op) /\ ~c.clobber THEN
           threads' = [threads EXCEPT ![t].pc = "raised",
                                       ![t].ret = AlreadyRegistered(c.name)]
       ELSE
           threads' = [threads EXCEPT ![t].pc = "acquire"]
    /\ UNCHANGED <<_file_drivers, _compressions, _file_driver_lock, _compression_lock,
                   latest>>
    /\ UNCHANGED runnervars

\* with lock: the thread enters once the lock is free. It is the first step
\* of a deregister call.
Acquire(t) ==
    /\ \/ threads[t].pc = "acquire"
       \/ threads[t].pc = "call" /\ threads[t].op \in DeregisterFunctions
    /\ ~LockOf(threads[t].op)
    /\ SetLock(threads[t].op, TRUE)
    /\ threads' = [threads EXCEPT ![t].pc = "locked"]
    /\ UNCHANGED <<_file_drivers, _compressions, latest>>
    /\ UNCHANGED runnervars

\* RegisterInsert that keeps the entry of a name that is registered already
\* (setdefault), clobber or not.
RegisterInsert_setdefault(t) ==
    /\ threads[t].pc = "locked"
    /\ threads[t].op \in RegisterFunctions
    /\ LET c == threads[t] IN
       /\ SetRegistry(c.op, IF c.name \in DOMAIN RegistryOf(c.op) THEN RegistryOf(c.op)
                            ELSE SetItem(RegistryOf(c.op), c.name, ImplOf(t, c.op)))
       /\ NoteRegistered(c.op, c.name, ImplOf(t, c.op))
    /\ SetLock(threads[t].op, FALSE)
    /\ threads' = [threads EXCEPT ![t].pc = "done", ![t].ret = Return(None)]
    /\ UNCHANGED runnervars

\* registry[name] = impl, and the exit from the with statement.
RegisterInsert(t) ==
    /\ threads[t].pc = "locked"
    /\ threads[t].op \in RegisterFunctions
    /\ LET c == threads[t] IN
       /\ SetRegistry(c.op, SetItem(RegistryOf(c.op), c.name, ImplOf(t, c.op)))
       /\ NoteRegistered(c.op, c.name, ImplOf(t, c.op))
    /\ SetLock(threads[t].op, FALSE)
    /\ threads' = [threads EXCEPT ![t].pc = "done", ![t].ret = Return(None)]
    /\ UNCHANGED runnervars

\* return registry.pop(name, None), and the exit from the with statement.
DeregisterPop(t) ==
    /\ threads[t].pc = "locked"
    /\ threads[t].op \in DeregisterFunctions
    /\ LET c == threads[t]
           d == RegistryOf(c.op)
       IN
       /\ SetRegistry(c.op, Pop(d, c.name))
       /\ NoteDeregistered(c.op, c.name)
       /\ threads' = [threads EXCEPT
                         ![t].pc = "done",
                         ![t].ret = IF c.name \in DOMAIN d THEN Return(d[c.name])
                                    ELSE Return(None)]
    /\ SetLock(threads[t].op, FALSE)
    /\ UNCHANGED runnervars

\* get_driver_implementation(name), get_compression_algorithm(name)
Get(t) ==
    /\ threads[t].pc = "call"
    /\ threads[t].op \in GetFunctions
    /\ LET c == threads[t]
           d == RegistryOf(c.op)
       IN
       threads' = [threads EXCEPT
                     ![t].pc = IF c.name \in DOMAIN d THEN "done" ELSE "raised",
                     ![t].ret = IF c.name \in DOMAIN d THEN Return(d[c.name])
                                ELSE Unsupported(c.name)]
    /\ UNCHANGED <<_file_drivers, _compressions, _file_driver_lock, _compression_lock,
                   latest>>
    /\ UNCHANGED runnervars

NextRegistry ==
    \/ \E t \in 1..MaxThreads : RegisterCheck(t)
    \/ \E t \in 1..MaxThreads : Acquire(t)
    \/ \E t \in 1..MaxThreads : RegisterInsert(t)
    \/ \E t \in 1..MaxThreads : DeregisterPop(t)
    \/ \E t \in 1..MaxThreads : Get(t)

SpecRegistry == InitRegistry /\ [][NextRegistry]_vars

(***************************************************************************)
(* The registries under the calls of callers that take turns: a call is    *)
(* made once the call before it is over, again and again.                  *)
(***************************************************************************)
\* A caller that has made no call yet, or whose call is forgotten.
Idle == [op |-> "none", name |-> "", clobber |-> FALSE, pc |-> "idle", ret |-> NoReturn]

InitLifecycle ==
    /\ benchmarks = <<>>
    /\ calls = 0
    /\ failures = 0
    /\ pc = "idle"
    /\ FreshCall
    /\ Imported
    /\ threads = [t \in 1..MaxThreads |-> Idle]

\* Caller t makes the call c, no call being under way.
Begin(t, c) ==
    /\ \A u \in DOMAIN threads : threads[u].pc \in {"idle", "done", "raised"}
    /\ threads' = [u \in DOMAIN threads |-> IF u = t THEN c ELSE Idle]
    /\ UNCHANGED <<_file_drivers, _compressions, _file_driver_lock, _compression_lock,
                   latest>>
    /\ UNCHANGED runnervars

NextLifecycle ==
    \/ \E t \in 1..MaxThreads : \E c \in { r \in RegistryCalls : WellNamed(r) } : Begin(t, c)
    \/ \E t \in 1..MaxThreads : RegisterCheck(t)
    \/ \E t \in 1..MaxThreads : Acquire(t)
    \/ \E t \in 1..MaxThreads : RegisterInsert(t)
    \/ \E t \in 1..MaxThreads : DeregisterPop(t)
    \/ \E t \in 1..MaxThreads : Get(t)

SpecLifecycle == InitLifecycle /\ [][NextLifecycle]_vars

(***************************************************************************)
(* FileIO.read_batched and FileIO.write_batched: the choice of the driver  *)
(* and of the compression from the arguments and the name of the file.     *)
(* File names are strings without a path separator.                        *)
(***************************************************************************)
\* The parts the file names are made of.
NameParts == {".", "r", "json", "gz", "gzip"}

RECURSIVE Concat(_)
Concat(parts) == IF parts = <<>> THEN "" ELSE Head(parts) \o Concat(Tail(parts))

FileNames == { Concat(parts) : parts \in UNION { [1..k -> NameParts] : k \in 1..MaxNameParts } }

\* s.rfind(c): the last position of the character c in s, counted from 1;
\* 0 (Python: -1) if there is none.
rfind(s, c) ==
    LET at == { k \in 1..Len(s) : SubSeq(s, k, k) = c } IN
    IF at = {} THEN 0 ELSE CHOOSE k \in at : \A h \in at : h <= k

\* s.count(c)
count(s, c) == Cardinality({ k \in 1..Len(s) : SubSeq(s, k, k) = c })

\* s.removeprefix(c), c one character
removeprefix(s, c) ==
    IF Len(s) >= 1 /\ SubSeq(s, 1, 1) = c THEN SubSeq(s, 2, Len(s)) ELSE s

\* s.rsplit(c, 1) of a string that holds c
rsplit(s, c) ==
    <<SubSeq(s, 1, rfind(s, c) - 1), SubSeq(s, rfind(s, c) + 1, Len(s))>>

\* Path(file).name
PathName(file) == IF file = "." THEN "" ELSE file

\* Path(file).suffix: the last dot of the name and what follows it, unless
\* that dot is the first or the last character of the name.
suffix(file) ==
    LET n == PathName(file)
        k == rfind(n, ".")
    IN  IF 1 < k /\ k < Len(n) THEN SubSeq(n, k, Len(n)) ELSE ""

\* ValueError of Path.with_suffix: the path has an empty name, or the suffix
\* is invalid.
InvalidSuffix(file) == [exc |-> "ValueError", value |-> file]

\* Path(file).with_suffix(fullext)
with_suffix(file, fullext) ==
    IF fullext = "." THEN [error |-> InvalidSuffix(fullext), file |-> file]
    ELSE IF PathName(file) = "" THEN [error |-> InvalidSuffix(file), file |-> file]
    ELSE [error |-> NoReturn,
          file |-> SubSeq(PathName(file), 1, Len(PathName(file)) - Len(suffix(file))) \o fullext]

\* bool(x) is False: None and the empty string
Falsy(x) == x = None \/ x = ""

\* What read_batched and write_batched do up to the call of the driver:
\* the exception raised, or the member of the driver's (ser, de) pair
\* (1: ser, 2: de), the function that opens the file and the file opened.
OpenWith(file, driver_arg, compression_arg, member) ==
    LET fileext == removeprefix(suffix(file), ".")
        ext     == IF count(fileext, ".") = 1 THEN rsplit(fileext, ".")
                   ELSE <<fileext, None>>
        driver      == IF Falsy(driver_arg) THEN ext[1] ELSE driver_arg
        compression == IF Falsy(compression_arg) THEN ext[2] ELSE compression_arg
        fullext == IF compression # None THEN "." \o driver \o "." \o compression
                   ELSE "." \o driver
        path    == with_suffix(file, fullext)
    IN  IF driver \notin DOMAIN _file_drivers THEN
            [exc |-> "KeyError", value |-> <<"unsupported file format", driver>>]
        ELSE IF path.error # NoReturn THEN
            path.error
        ELSE IF compression # None /\ compression \notin DOMAIN _compressions THEN
            [exc |-> "KeyError", value |-> <<"unsupported compression algorithm", compression>>]
        ELSE
            Return([serde |-> _file_drivers[driver][member],
                    fd    |-> IF compression # None THEN _compressions[compression]
                              ELSE "open",
                    file  |-> path.file])

\* A call of read_batched or write_batched before its first step.
FileCall(op, file, driver, compression) ==
    [op |-> op, file |-> file, driver |-> driver, compression |-> compression,
     pc |-> "call", ret |-> NoReturn]

FileCalls ==
    { FileCall(op, file, driver, compression) :
        op \in {"read_batched", "write_batched"}, file \in FileNames,
        driver \in {None, "json"}, compression \in {None, "gzip"} }

InitFile ==
    /\ benchmarks = <<>>
    /\ calls = 0
    /\ failures = 0
    /\ pc = "idle"
    /\ FreshCall
    /\ Imported
    /\ threads \in [{1} -> FileCalls]

\* FileIO.read_batched(file, mode, driver, compression, options)
ReadBatched(t) ==
    /\ threads[t].pc = "call"
    /\ threads[t].op = "read_batched"
    /\ LET c == threads[t]
           r == OpenWith(c.file, c.driver, c.compression, 2)
       IN  threads' = [threads EXCEPT
                         ![t].pc = IF r.exc = "none" THEN "done" ELSE "raised",
                         ![t].ret = r]
    /\ UNCHANGED <<_file_drivers, _compressions, _file_driver_lock, _compression_lock,
                   latest>>
    /\ UNCHANGED runnervars

\* FileIO.write_batched(records, file, mode, driver, compression, ctxmode, options)
WriteBatched(t) ==
    /\ threads[t].pc = "call"
    /\ threads[t].op = "write_batched"
    /\ LET c == threads[t]
           r == OpenWith(c.file, c.driver, c.compression, 1)
       IN  threads' = [threads EXCEPT
                         ![t].pc = IF r.exc = "none" THEN "done" ELSE "raised",
                         ![t].ret = r]
    /\ UNCHANGED <<_file_drivers, _compressions, _file_driver_lock, _compression_lock,
                   latest>>
    /\ UNCHANGED runnervars

NextFile ==
    \/ ReadBatched(1)
    \/ WriteBatched(1)

SpecFile == InitFile /\ [][NextFile]_vars

(***************************************************************************)
(* What the log tells about a run.                                         *)
(***************************************************************************)
\* The positions in the log of the calls of one hook of the j-th benchmark.
CallsOf(what, j) == { k \in DOMAIN log : log[k].call = what /\ log[k].of = j }

\* The hook of the j-th benchmark was called and returned.
ReturnedFrom(what, j) == \E k \in CallsOf(what, j) : log[k].outcome \notin Messages

\* The hook of the j-th benchmark was called and raised.
RaisedIn(what, j) == \E k \in CallsOf(what, j) : log[k].outcome \in Messages

\* The setUp or the function of the j-th benchmark raised.
Failed(j) == RaisedIn("setUp", j) \/ RaisedIn("fn", j)

\* The messages of the exceptions raised by setUp or the function of the
\* j-th benchmark.
FailureMessages(j) ==
    { log[k].outcome : k \in { n \in CallsOf("setUp", j) \cup CallsOf("fn", j) :
                                 log[n].outcome \in Messages } }

\* A run() call is under way or over (and not a collect() or clear() call).
InRun == pc \in {"provider", "setUp", "fn", "tearDown", "returned"}
            \/ (pc = "raised" /\ error.kind # BadPath("").kind)

(***************************************************************************)
(* C1. Failure isolation: an exception raised by the setUp or the function *)
(* of a benchmark never reaches the caller of run(), it is recorded in     *)
(* that benchmark's outcome (error_occurred, and error_message = the       *)
(* exception's message), and the benchmarks after it are still set up, run *)
(* (when their own setUp returns) and torn down, each with an outcome.     *)
(***************************************************************************)
FailureIsolation ==
    /\ (pc = "raised" /\ log # <<>>) => log[Len(log)].call \notin {"setUp", "fn"}
    /\ \A j \in DOMAIN results :
          Failed(j) =>
             /\ "error_occurred" \in DOMAIN results[j]
             /\ results[j]["error_occurred"] = "True"
             /\ "error_message" \in DOMAIN results[j]
             /\ FailureMessages(j) = {results[j]["error_message"]}
    /\ \A j \in DOMAIN benchmarks :
          (Failed(j) /\ ReturnedFrom("tearDown", j) /\ j < Len(benchmarks)) =>
             \/ pc = "setUp" /\ i = j + 1
             \/ /\ CallsOf("setUp", j + 1) # {}
                /\ ReturnedFrom("setUp", j + 1) =>
                      (CallsOf("fn", j + 1) # {} \/ (pc = "fn" /\ i = j + 1))
                /\ \/ CallsOf("tearDown", j + 1) # {}
                   \/ (pc \in {"fn", "tearDown"} /\ i = j + 1)
                /\ ReturnedFrom("tearDown", j + 1) => j + 1 \in DOMAIN results
    /\ pc = "returned" =>
          /\ Len(result.benchmarks) = Len(benchmarks)
          /\ \A j \in DOMAIN benchmarks :
                /\ CallsOf("setUp", j) # {}
                /\ CallsOf("tearDown", j) # {}
                /\ ReturnedFrom("setUp", j) => CallsOf("fn", j) # {}

\* A run has returned in which a benchmark failed and a later one has a value.
FailureIsolationWitness ==
    /\ pc = "returned"
    /\ \E j, k \in DOMAIN benchmarks :
          /\ j < k
          /\ Failed(j)
          /\ ReturnedFrom("fn", k)
          /\ "value" \in DOMAIN result.benchmarks[k]

(***************************************************************************)
(* C2. Teardown discipline: the tearDown of a benchmark is called exactly  *)
(* once, after its setUp was called, whether setUp and the function        *)
(* return or one of them raises, and before the setUp of the next          *)
(* benchmark is called.                                                    *)
(***************************************************************************)
TeardownDiscipline ==
    \A j \in DOMAIN benchmarks :
       /\ Cardinality(CallsOf("setUp", j)) <= 1
       /\ Cardinality(CallsOf("tearDown", j)) <= 1
       /\ \A t \in CallsOf("tearDown", j) : \E u \in CallsOf("setUp", j) : u < t
       /\ \A t \in CallsOf("tearDown", j) : \A f \in CallsOf("fn", j) : f < t
       /\ CallsOf("setUp", j) # {} =>
             \/ pc \in {"fn", "tearDown"} /\ i = j
             \/ Cardinality(CallsOf("tearDown", j)) = 1
       /\ \A u \in CallsOf("setUp", j + 1) : \E t \in CallsOf("tearDown", j) : t < u

\* The three exit paths have been taken in one run, each followed by the
\* tearDown of its benchmark.
TeardownDisciplineWitness ==
    \E j, k, l \in DOMAIN benchmarks :
       /\ RaisedIn("setUp", j) /\ CallsOf("tearDown", j) # {}
       /\ RaisedIn("fn", k) /\ CallsOf("tearDown", k) # {}
       /\ ReturnedFrom("fn", l) /\ CallsOf("tearDown", l) # {}

(***************************************************************************)
(* C3. Fail-fast validation: when the interface merge or the validation of *)
(* the supplied parameters fails, run() raises that error and no context   *)
(* provider, setUp, benchmark function or tearDown has been called.        *)
(***************************************************************************)
CheckFails(params, bms) ==
    \/ Merge(bms).error # NoError
    \/ Validate(params, Merge(bms).allvars) # NoError

FailFast ==
    (InRun /\ CheckFails(dparams, benchmarks)) =>
       /\ pc = "raised"
       /\ error.kind \in {IncompatibleTypes("", "", "").kind, MissingValue("").kind,
                           ExpectedType("", "", "").kind}
       /\ log = <<>>

\* run(), called with context providers, has raised an error of _check.
FailFastWitness ==
    /\ pc = "raised"
    /\ log = <<>>
    /\ error.kind \in {IncompatibleTypes("", "", "").kind, MissingValue("").kind,
                        ExpectedType("", "", "").kind}
    /\ context # <<>>

(***************************************************************************)
(* C4. Outcome sequence: a result returned by run() holds one outcome per  *)
(* benchmark of the collection, the j-th outcome being the one of the j-th *)
(* benchmark: its name when its setUp returned, the value its function     *)
(* returned or the message of the exception its setUp or function raised.  *)
(***************************************************************************)
OutcomeOf(o, j) ==
    /\ ReturnedFrom("setUp", j) =>
          ("name" \in DOMAIN o /\ o["name"] = benchmarks[j].fn)
    /\ ReturnedFrom("fn", j) =>
          /\ "value" \in DOMAIN o
          /\ \E k \in CallsOf("fn", j) : log[k].outcome = o["value"]
    /\ Failed(j) =>
          /\ "error_message" \in DOMAIN o
          /\ o["error_message"] \in FailureMessages(j)
    /\ "value" \in DOMAIN o => ReturnedFrom("fn", j)
    /\ "error_message" \in DOMAIN o => Failed(j)

OutcomeSequence ==
    pc = "returned" =>
       /\ Len(benchmarks) >= 1
       /\ Len(result.benchmarks) = Len(benchmarks)
       /\ \A j \in DOMAIN benchmarks : OutcomeOf(result.benchmarks[j], j)

\* A result of three outcomes, of a benchmark that failed between two that
\* returned a value.
OutcomeSequenceWitness ==
    /\ pc = "returned"
    /\ Len(result.benchmarks) = 3
    /\ ReturnedFrom("fn", 1) /\ Failed(2) /\ ReturnedFrom("fn", 3)

(***************************************************************************)
(* What a collection declares, and where _check stands.                    *)
(***************************************************************************)
\* The variables declared by the benchmarks of the runner, in order.
Decls == AllVariables(benchmarks)

\* The declarations of one name.
DeclsOf(n) ==
    LET ds == Decls IN { ds[k] : k \in { h \in DOMAIN ds : ds[h].name = n } }

\* The specified (annotated) types declared for one name.
SpecifiedTypes(n) == { d.typ : d \in { e \in DeclsOf(n) : e.typ # empty } }

\* Neither class is a subclass of the other.
Unrelated(t1, t2) == ~issubclass(t1, t2) /\ ~issubclass(t2, t1)

\* The error is the interface conflict of the merge.
IsConflict(e) == e.kind = IncompatibleTypes("", "", "").kind

\* The merge is over and has raised no conflict: allvars is the unified
\* interface.
MergedOK ==
    \/ pc \in {"validate", "returned"}
    \/ pc = "raised" /\ ~IsConflict(error)

\* The validation is over: it returned, or raised its error.
Validated ==
    \/ pc = "returned"
    \/ pc = "raised" /\ ~IsConflict(error)

\* The sequences that hold the elements of s in another order.
Reorderings(s) ==
    { [k \in DOMAIN s |-> s[o[k]]] : o \in Orderings(DOMAIN s) }

\* A unified interface as a set: the type and the required status per name.
InterfaceOf(av) ==
    { <<av[k].name, av[k].typ, av[k].default = empty>> : k \in DOMAIN av }

(***************************************************************************)
(* C5. Interface conflict: when two benchmarks declare the same parameter  *)
(* with two specified types neither of which is a subclass of the other,   *)
(* the merge fails with a TypeError that names a parameter and two         *)
(* unrelated types declared for it.                                        *)
(***************************************************************************)
InterfaceConflict ==
    (/\ pc # "merge"
     /\ \E n \in Names : \E t1, t2 \in SpecifiedTypes(n) : Unrelated(t1, t2))
    =>
    /\ pc = "raised"
    /\ error.exc = "TypeError"
    /\ IsConflict(error)
    /\ \E d1, d2 \in DeclsOf(error.name) :
          d1.typ = error.t1 /\ d2.typ = error.t2 /\ Unrelated(d1.typ, d2.typ)

(***************************************************************************)
(* C6. Narrowing merge: when the merge succeeds, the type recorded for a   *)
(* name is one of the types declared for it and is a subclass of (or equal *)
(* to) every specified type declared for it, whatever the order of the     *)
(* declarations.                                                           *)
(***************************************************************************)
NarrowingMerge ==
    MergedOK =>
       /\ \A n \in Names :
             Cardinality({k \in DOMAIN allvars : allvars[k].name = n})
                = IF DeclsOf(n) = {} THEN 0 ELSE 1
       /\ \A k \in DOMAIN allvars :
             /\ allvars[k].typ \in { d.typ : d \in DeclsOf(allvars[k].name) }
             /\ \A t \in SpecifiedTypes(allvars[k].name) : issubclass(allvars[k].typ, t)

\* A merge that met the wider type first and the narrower type later, and
\* recorded the narrower one.
NarrowingMergeWitness ==
    /\ MergedOK
    /\ \E a, b \in DOMAIN Decls :
          /\ a < b
          /\ Decls[a].name = Decls[b].name
          /\ Decls[a].typ = "Sized"
          /\ Decls[b].typ = "list"
          /\ \E k \in DOMAIN allvars :
                allvars[k].name = Decls[a].name /\ allvars[k].typ = "list"

(***************************************************************************)
(* C7. Untyped declarations: when a name is declared untyped by one        *)
(* benchmark and with a specified type by another (the specified types     *)
(* declared for it being compatible with each other), the merge raises no  *)
(* conflict for that name and the unified entry keeps a specified type.    *)
(***************************************************************************)
UntypedKeepsSpecified ==
    pc # "merge" =>
       \A n \in Names :
          (/\ \E d \in DeclsOf(n) : d.typ = empty
           /\ SpecifiedTypes(n) # {}
           /\ \A t1, t2 \in SpecifiedTypes(n) : ~Unrelated(t1, t2))
          =>
          /\ ~(pc = "raised" /\ IsConflict(error) /\ error.name = n)
          /\ MergedOK =>
                \A k \in DOMAIN allvars :
                   allvars[k].name = n => allvars[k].typ \in SpecifiedTypes(n)

(***************************************************************************)
(* C8. Order independence: on every permutation of the collection the      *)
(* merge fails if it failed on the collection, and otherwise yields the    *)
(* same type and the same required status for every name.                  *)
(***************************************************************************)
OrderIndependence ==
    pc # "merge" =>
       \A perm \in Reorderings(benchmarks) :
          LET m == Merge(perm) IN
          /\ MergedOK <=> m.error = NoError
          /\ MergedOK => InterfaceOf(m.allvars) = InterfaceOf(allvars)

(***************************************************************************)
(* C9. Required-ness: when the merge succeeds, the unified entry of a name *)
(* has no default if and only if some benchmark declares the name without  *)
(* a default, whatever the order of the declarations.                      *)
(***************************************************************************)
RequiredIffDeclaredRequired ==
    MergedOK =>
       \A k \in DOMAIN allvars :
          allvars[k].default = empty
             <=> \E d \in DeclsOf(allvars[k].name) : d.default = empty

\* A merge that met a declaration with a default first and one without
\* later, and made the entry required.
RequiredIffDeclaredRequiredWitness ==
    /\ MergedOK
    /\ \E a, b \in DOMAIN Decls :
          /\ a < b
          /\ Decls[a].name = Decls[b].name
          /\ Decls[a].default # empty
          /\ Decls[b].default = empty
          /\ \E k \in DOMAIN allvars :
                allvars[k].name = Decls[a].name /\ allvars[k].default = empty

(***************************************************************************)
(* C10. Missing parameter.                                                 *)
(***************************************************************************)
\* The k-th unified entry is required and the supplied parameters lack it.
Lacks(k) == allvars[k].default = empty /\ allvars[k].name \notin DOMAIN dparams

\* The k-th unified entry is typed and the supplied value is of another type.
Mismatches(k) ==
    /\ allvars[k].typ # empty
    /\ allvars[k].name \in DOMAIN dparams
    /\ ~issubclass(TypeOf(dparams[allvars[k].name]), allvars[k].typ)

IsMissing(e) == e.kind = MissingValue("").kind

\* C10 as claimed: the validation raises the missing-parameter error exactly
\* when the supplied parameters lack the name of a required unified entry.
MissingExactly ==
    Validated => (IsMissing(error) <=> \E k \in DOMAIN allvars : Lacks(k))

\* C10 as amended: the validation fails whenever the supplied parameters
\* lack the name of a required unified entry; its error is the
\* missing-parameter ValueError, naming such an entry, exactly when no entry
\* before the first lacking one has a value of a mismatching type (the
\* TypeError of that entry is raised otherwise); a name whose entry has a
\* default may be omitted without error.
MissingParameter ==
    Validated =>
       /\ IsMissing(error) <=>
             \E k \in DOMAIN allvars :
                Lacks(k) /\ \A h \in 1..(k - 1) : ~Mismatches(h)
       /\ IsMissing(error) =>
             /\ pc = "raised"
             /\ error.exc = "ValueError"
             /\ \E k \in DOMAIN allvars : Lacks(k) /\ allvars[k].name = error.name
       /\ (\E k \in DOMAIN allvars : Lacks(k)) => pc = "raised"
       /\ (\A k \in DOMAIN allvars : ~Lacks(k) /\ ~Mismatches(k)) => pc = "returned"

\* The supplied parameters lack a required name and the validation has
\* raised the type mismatch of an earlier entry.
MissingParameterWitness ==
    /\ Validated
    /\ \E k \in DOMAIN allvars : Lacks(k)
    /\ error.kind = ExpectedType("", "", "").kind

(***************************************************************************)
(* C11. Type check of supplied values.                                     *)
(***************************************************************************)
IsMismatch(e) == e.kind = ExpectedType("", "", "").kind

\* C11 as claimed: the validation raises the type-mismatch error exactly
\* when some unified entry with a specified type has a supplied value whose
\* type is not a subclass of it.
TypeCheckExactly ==
    Validated => (IsMismatch(error) <=> \E k \in DOMAIN allvars : Mismatches(k))

\* C11 as amended: the validation fails whenever a unified entry with a
\* specified type has a supplied value whose type is not a subclass of it;
\* its error is the type-mismatch TypeError, naming the first such entry,
\* its type and the type of the value, exactly when no entry before that
\* one is required and lacking (the missing-parameter error of that entry
\* is raised otherwise); an untyped entry, and a typed entry whose value is
\* of its type or of a subclass, never raises the type mismatch.
TypeCheck ==
    Validated =>
       /\ IsMismatch(error) <=>
             \E k \in DOMAIN allvars :
                Mismatches(k) /\ \A h \in 1..(k - 1) : ~Lacks(h)
       /\ IsMismatch(error) =>
             /\ pc = "raised"
             /\ error.exc = "TypeError"
             /\ \E k \in DOMAIN allvars :
                   /\ Mismatches(k)
                   /\ \A h \in 1..(k - 1) : ~Mismatches(h)
                   /\ error.name = allvars[k].name
                   /\ error.t1 = allvars[k].typ
                   /\ error.t2 = TypeOf(dparams[allvars[k].name])
       /\ (\E k \in DOMAIN allvars : Mismatches(k)) => pc = "raised"
       /\ \A k \in DOMAIN allvars :
             (\/ allvars[k].typ = empty
              \/ /\ allvars[k].name \in DOMAIN dparams
                 /\ issubclass(TypeOf(dparams[allvars[k].name]), allvars[k].typ))
             => ~(IsMismatch(error) /\ error.name = allvars[k].name)

\* The validation has accepted the value given to an untyped entry and has
\* raised the type mismatch of a later entry.
TypeCheckWitness ==
    /\ Validated
    /\ IsMismatch(error)
    /\ \E h, k \in DOMAIN allvars :
          /\ h < k
          /\ allvars[h].typ = empty /\ allvars[h].name \in DOMAIN dparams
          /\ allvars[k].name = error.name

(***************************************************************************)
(* What the log tells about the context providers of a run.                *)
(***************************************************************************)
\* The q-th provider was called and returned its contribution.
ProviderReturned(q) ==
    \E k \in DOMAIN log :
       log[k].call = "provider" /\ log[k].of = q /\ log[k].outcome = "ok"

\* The keys returned by more than one provider.
DuplicateKeys ==
    { key \in UNION { DOMAIN context[q] : q \in DOMAIN context } :
        \E q1, q2 \in DOMAIN context :
           /\ q1 # q2
           /\ ProviderReturned(q1) /\ ProviderReturned(q2)
           /\ key \in DOMAIN context[q1] \cap DOMAIN context[q2] }

\* The error is the duplicate-key error of the provider loop.
IsDuplicateKey(e) == e.kind = MultipleValues({}).kind

\* A setUp, a benchmark function or a tearDown has been called.
HookCalled == \E k \in DOMAIN log : log[k].call \in {"setUp", "fn", "tearDown"}

(***************************************************************************)
(* C12. Context aggregation: a result returned by run() holds as context   *)
(* the union of the contributions of all its providers, whose key sets are *)
(* pairwise disjoint (the empty mapping when there is no provider); as     *)
(* soon as a key has been returned by two providers, run() has raised the  *)
(* duplicate-key ValueError and no setUp, benchmark function or tearDown   *)
(* has been called; that error is raised in no other case.                 *)
(***************************************************************************)
ContextAggregation ==
    /\ pc = "returned" =>
          /\ \A q \in DOMAIN context : ProviderReturned(q)
          /\ DuplicateKeys = {}
          /\ DOMAIN result.context = UNION { DOMAIN context[q] : q \in DOMAIN context }
          /\ \A q \in DOMAIN context : \A key \in DOMAIN context[q] :
                result.context[key] = context[q][key]
    /\ DuplicateKeys # {} =>
          /\ pc = "raised"
          /\ error.exc = "ValueError"
          /\ IsDuplicateKey(error)
          /\ ~HookCalled
    /\ (pc = "raised" /\ IsDuplicateKey(error)) => DuplicateKeys # {}

\* A run with two providers of disjoint keys has returned a result whose
\* context holds the keys of both.
ContextAggregationWitness ==
    /\ pc = "returned"
    /\ Len(context) = 2
    /\ DOMAIN context[1] # DOMAIN context[2]
    /\ DOMAIN result.context = DOMAIN context[1] \cup DOMAIN context[2]

(***************************************************************************)
(* C13. Completeness of the duplicate-key diagnostic: when the provider    *)
(* loop raises the duplicate-key error, the error lists every key that is  *)
(* in the contribution of more than one provider of the sequence.          *)
(***************************************************************************)
\* The keys that more than one provider of the sequence contributes.
KeysOfSeveral ==
    { key \in UNION { DOMAIN context[q] : q \in DOMAIN context } :
        \E q1, q2 \in DOMAIN context :
           q1 # q2 /\ key \in DOMAIN context[q1] \cap DOMAIN context[q2] }

CompleteDiagnostic ==
    (pc = "raised" /\ IsDuplicateKey(error)) => error.name = KeysOfSeveral

(***************************************************************************)
(* C14. Parameter projection: the mapping passed to the setUp, to the      *)
(* function and to the tearDown of a benchmark is the supplied parameters  *)
(* restricted to the names that benchmark declares itself, the same for    *)
(* the three calls; a name declared by other benchmarks only, or by none,  *)
(* is never passed to it.                                                  *)
(***************************************************************************)
\* The names the j-th benchmark declares.
DeclaredBy(j) == { benchmarks[j].variables[h].name : h \in DOMAIN benchmarks[j].variables }

\* The positions in the log of the calls of the hooks of benchmarks.
HookCalls == { k \in DOMAIN log : log[k].call \in {"setUp", "fn", "tearDown"} }

ParameterProjection ==
    /\ \A k \in HookCalls :
          /\ DOMAIN log[k].args = DOMAIN dparams \cap DeclaredBy(log[k].of)
          /\ \A n \in DOMAIN log[k].args : log[k].args[n] = dparams[n]
    /\ \A k, h \in HookCalls :
          log[k].of = log[h].of =>
             /\ DOMAIN log[k].args = DOMAIN log[h].args
             /\ \A n \in DOMAIN log[k].args : log[k].args[n] = log[h].args[n]

\* The three hooks of a benchmark have been called without a supplied
\* parameter that another benchmark of the collection declares.
ParameterProjectionWitness ==
    \E j, l \in DOMAIN benchmarks : \E n \in DOMAIN dparams :
       /\ n \notin DeclaredBy(j)
       /\ n \in DeclaredBy(l)
       /\ CallsOf("setUp", j) # {} /\ CallsOf("fn", j) # {} /\ CallsOf("tearDown", j) # {}
       /\ \A k \in HookCalls : log[k].of = j => n \notin DOMAIN log[k].args

(***************************************************************************)
(* C15. Every outcome of a result carries the name of its benchmark,       *)
(* whether the benchmark returned a value, its function raised or its      *)
(* setUp raised.                                                           *)
(***************************************************************************)
OutcomeHasName ==
    pc = "returned" =>
       \A j \in DOMAIN result.benchmarks :
          /\ "name" \in DOMAIN result.benchmarks[j]
          /\ result.benchmarks[j]["name"] = benchmarks[j].fn

(***************************************************************************)
(* C16. Empty collection: a run() on a runner that still holds no          *)
(* benchmark after the collection produces no result: it returns None,     *)
(* which is not a result with an empty list of outcomes, it raises no      *)
(* error of the validation, and it calls no context provider, even when    *)
(* it was given some.                                                      *)
(***************************************************************************)
EmptyCollection ==
    /\ benchmarks = <<>> =>
          /\ pc \in {"idle", "none", "raised"}
          /\ pc = "raised" => error.kind = BadPath("").kind
          /\ result = None
          /\ log = <<>>
    /\ pc = "returned" => result.benchmarks # <<>>

\* A run() given context providers has returned None on an empty collection
\* without having called any of them.
EmptyCollectionWitness ==
    /\ pc = "none"
    /\ benchmarks = <<>>
    /\ context # <<>>
    /\ result = None
    /\ log = <<>>

(***************************************************************************)
(* C17. Mutual exclusion of the registration: among the concurrent calls   *)
(* of register_driver_implementation (of register_compression) with        *)
(* clobber=False on one name, which no concurrent call deregisters, at     *)
(* most one succeeds, and none if the name is registered already; every    *)
(* other one raises the RuntimeError; and the entry is the one of the call *)
(* that succeeded, or the one registered before, unless a clobber=True     *)
(* call replaces it.                                                       *)
(***************************************************************************)
\* The functions of the registry a function works on.
SameRegistry(op) == IF op \in DriverFunctions THEN DriverFunctions ELSE CompressionFunctions

\* The threads that call op with this name and clobber.
Callers(op, name, clobber) ==
    { t \in DOMAIN threads :
        threads[t].op = op /\ threads[t].name = name /\ threads[t].clobber = clobber }

\* The name is registered by the import of the module.
Builtin(op, name) ==
    IF op \in DriverFunctions THEN name \in {"yaml", "json", "csv"}
    ELSE name \in {"gzip", "bz2"}

RegistrationExclusive ==
    \A op \in RegisterFunctions : \A name \in DriverNames \cup CompressionNames :
       LET R         == Callers(op, name, FALSE)
           succeeded == { t \in R : threads[t].pc = "done" }
       IN
       (\A t \in DOMAIN threads :
           ~(threads[t].op \in SameRegistry(op) \cap DeregisterFunctions
             /\ threads[t].name = name))
       =>
       /\ Cardinality(succeeded) <= IF Builtin(op, name) THEN 0 ELSE 1
       /\ \A t \in R : threads[t].pc = "raised" => threads[t].ret = AlreadyRegistered(name)
       /\ (Callers(op, name, TRUE) = {} /\ name \in DOMAIN RegistryOf(op)) =>
             \/ Builtin(op, name)
             \/ \E t \in succeeded : RegistryOf(op)[name] = ImplOf(t, op)

(***************************************************************************)
(* C18. Driver selection from the name of the file: a call of read_batched *)
(* or write_batched without driver and compression arguments on a file     *)
(* whose name ends in .<driver>.<compression>, both registered, uses that  *)
(* driver and that compression; and on a file whose name ends in .json.gz  *)
(* it uses the json driver and the gzip compression, and raises no error   *)
(* of an unsupported format or compression.                                *)
(***************************************************************************)
\* s ends with e, after at least one more character.
EndsWith(s, e) == Len(s) > Len(e) /\ SubSeq(s, Len(s) - Len(e) + 1, Len(s)) = e

\* The call is over and has used the driver and the compression.
Uses(c, driver, compression) ==
    /\ c.pc = "done"
    /\ c.ret.value.serde \in { _file_drivers[driver][1], _file_drivers[driver][2] }
    /\ c.ret.value.fd = _compressions[compression]

SelectionByName ==
    \A t \in DOMAIN threads :
       LET c == threads[t] IN
       (c.pc # "call" /\ c.driver = None /\ c.compression = None) =>
          /\ \A d \in DOMAIN _file_drivers : \A z \in DOMAIN _compressions :
                EndsWith(c.file, "." \o d \o "." \o z) => Uses(c, d, z)
          /\ EndsWith(c.file, ".json.gz") => Uses(c, "json", "gzip")

(***************************************************************************)
(* C19. Tag filter of collect: after collect(path_or_module, tags) on a    *)
(* runner without benchmarks, every benchmark of the runner has all of     *)
(* tags among its tags, whether the source is a module, a file or a        *)
(* directory.                                                              *)
(***************************************************************************)
TagFilter ==
    [][\A path \in Paths, tags \in Tags : \A files \in PyFiles(path) :
          (benchmarks = <<>> /\ Collect(path, tags, files)) =>
             \A k \in DOMAIN benchmarks' : tags \subseteq benchmarks'[k].tags]_vars

(***************************************************************************)
(* C20. A failed validation leaves the runner reusable: a run() never      *)
(* changes the collection of a runner that holds benchmarks, so after any  *)
(* number of run() calls that raised an error of _check the collection is  *)
(* the one first collected; and a run() that follows them with valid       *)
(* parameters raises no error of _check, and when it returns it has set    *)
(* up, run and torn down every benchmark of the collection exactly once    *)
(* and holds one outcome for each.                                         *)
(***************************************************************************)
ReusableAfterFailure ==
    /\ [][benchmarks # <<>> => benchmarks' = benchmarks]_vars
    /\ [](failures > 0 =>
            /\ benchmarks # <<>>
            /\ (InRun /\ ~CheckFails(dparams, benchmarks)) => ~CheckRaised(pc, error)
            /\ pc = "returned" =>
                  /\ Len(result.benchmarks) = Len(benchmarks)
                  /\ \A j \in DOMAIN benchmarks :
                        /\ Cardinality(CallsOf("setUp", j)) = 1
                        /\ Cardinality(CallsOf("fn", j)) =
                              IF ReturnedFrom("setUp", j) THEN 1 ELSE 0
                        /\ Cardinality(CallsOf("tearDown", j)) = 1)

\* Two run() calls have raised an error of _check, and a third one on the
\* same runner has returned a result.
ReusableAfterFailureWitness ==
    /\ failures >= 2
    /\ pc = "returned"
    /\ Len(result.benchmarks) = Len(benchmarks)

(***************************************************************************)
(* C21. Provider invocation order: the context providers of a run are      *)
(* called after the validation has passed and before the first setUp, in   *)
(* the order of the sequence, each at most once; and once the aggregation  *)
(* is over without an error (the benchmark loop has started), each         *)
(* provider of the sequence has been called exactly once and has returned. *)
(***************************************************************************)
\* The positions in the log of the calls of the context providers.
ProviderCalls == { k \in DOMAIN log : log[k].call = "provider" }

\* The provider loop of the run is over and has raised nothing.
Aggregated ==
    \/ pc \in {"setUp", "fn", "tearDown", "returned"}
    \/ pc = "raised" /\ HookCalled

ProviderOrder ==
    /\ ProviderCalls # {} => (InRun /\ ~CheckFails(dparams, benchmarks))
    /\ \A k \in ProviderCalls :
          /\ log[k].of = k
          /\ k <= Len(context)
          /\ \A h \in HookCalls : k < h
    /\ Aggregated =>
          /\ ProviderCalls = 1..Len(context)
          /\ \A k \in ProviderCalls : log[k].outcome = "ok"

\* A run given two providers has returned a result on a runner called
\* before: the log holds the call of the first provider, then the call of
\* the second one, then the calls of the hooks.
ProviderOrderWitness ==
    /\ pc = "returned"
    /\ calls >= 2
    /\ Len(context) = 2
    /\ ProviderCalls = {1, 2}
    /\ log[1].of = 1 /\ log[2].of = 2
    /\ log[3].call = "setUp"

(***************************************************************************)
(* C22. Value and error are mutually exclusive in every outcome: an        *)
(* outcome holds a value exactly when the setUp and the function of its    *)
(* benchmark both returned, it holds error_occurred and error_message      *)
(* exactly when one of them raised, and it holds one of the two and never  *)
(* both.                                                                   *)
(***************************************************************************)
\* The outcome o of the j-th benchmark holds either its value or its error.
ValueOrError(o, j) ==
    LET value == "value" \in DOMAIN o
        flag  == "error_occurred" \in DOMAIN o
        msg   == "error_message" \in DOMAIN o
    IN  /\ value <=> (ReturnedFrom("setUp", j) /\ ReturnedFrom("fn", j))
        /\ flag <=> Failed(j)
        /\ msg <=> Failed(j)
        /\ ~(value /\ (flag \/ msg))
        /\ value \/ (flag /\ msg)

ValueErrorExclusive ==
    /\ \A j \in DOMAIN results : ValueOrError(results[j], j)
    /\ pc = "returned" =>
          \A j \in DOMAIN result.benchmarks : ValueOrError(result.benchmarks[j], j)

\* A result holds the outcome of a benchmark that returned a value, the one
\* of a benchmark whose setUp raised and the one of a benchmark whose
\* function raised.
ValueErrorExclusiveWitness ==
    /\ pc = "returned"
    /\ \E j, k, l \in DOMAIN result.benchmarks :
          /\ "value" \in DOMAIN result.benchmarks[j]
          /\ RaisedIn("setUp", k) /\ "error_message" \in DOMAIN result.benchmarks[k]
          /\ RaisedIn("fn", l) /\ "error_message" \in DOMAIN result.benchmarks[l]

(***************************************************************************)
(* C23. Registry lifecycle: in the driver registry and in the compression  *)
(* registry, after any sequence of register and deregister calls, a lookup *)
(* of a name returns the implementation of the last registration under it  *)
(* that no deregistration followed, and raises the KeyError "unsupported   *)
(* ..." of that name when there is none; a deregistration returns the      *)
(* implementation it removes, or None without an error when the name is    *)
(* not registered, and leaves the entries of all other names as they are.  *)
(***************************************************************************)
\* The lookup that is over has returned what the history tells.
LookupOf(c) ==
    LET l == LatestOf(c.op) IN
    IF c.name \in DOMAIN l
    THEN c.pc = "done" /\ c.ret = Return(l[c.name])
    ELSE c.pc = "raised" /\ c.ret = Unsupported(c.name)

\* Thread t leaves the with statement of a deregistration in this step.
Deregisters(t) ==
    /\ threads[t].op \in DeregisterFunctions
    /\ threads[t].pc = "locked"
    /\ threads'[t].pc # "locked"

RegistryLifecycle ==
    /\ [](\A t \in DOMAIN threads :
            (threads[t].op \in GetFunctions /\ threads[t].pc \in {"done", "raised"})
               => LookupOf(threads[t]))
    /\ [][\A t \in DOMAIN threads :
            Deregisters(t) =>
               LET c == threads[t]
                   l == LatestOf(c.op)
               IN
               /\ threads'[t].pc = "done"
               /\ threads'[t].ret = IF c.name \in DOMAIN l THEN Return(l[c.name])
                                    ELSE Return(None)
               /\ DOMAIN _file_drivers' \cup DOMAIN _compressions' =
                     (DOMAIN _file_drivers \cup DOMAIN _compressions) \ {c.name}
               /\ \A n \in DOMAIN _file_drivers' : _file_drivers'[n] = _file_drivers[n]
               /\ \A n \in DOMAIN _compressions' : _compressions'[n] = _compressions[n]]_vars

\* The lookup of json has returned the implementation registered by a
\* caller in place of the builtin one, gzip being deregistered and bz2 still
\* registered.
RegistryLifecycleWitness ==
    /\ \E t \in DOMAIN threads :
          /\ threads[t].op = "get_driver_implementation"
          /\ threads[t].name = "json"
          /\ threads[t].pc = "done"
          /\ threads[t].ret.value # BuiltinSerDe("json")
    /\ DOMAIN _compressions = {"bz2"}

(***************************************************************************)
(* C24. clear resets the collection: clear() leaves the runner without     *)
(* benchmarks, whatever it held, as a fresh runner is; and a collect on a  *)
(* runner without benchmarks that was called before (so after a clear)     *)
(* yields what the same collect yields on a fresh runner, and holds no     *)
(* benchmark twice.                                                        *)
(***************************************************************************)
\* What collect(path, tags) leaves in a fresh runner.
FreshCollect(path, tags, files) == collect(<<>>, path, tags, files).benchmarks

ClearResets ==
    [][/\ Clear => benchmarks' = <<>>
       /\ \A path \in Paths, tags \in Tags : \A files \in PyFiles(path) :
             (benchmarks = <<>> /\ calls > 0 /\ Collect(path, tags, files)) =>
                /\ benchmarks' = FreshCollect(path, tags, files)
                /\ \A a, b \in DOMAIN benchmarks' :
                      a # b => benchmarks'[a] # benchmarks'[b]]_vars

\* The third call on a runner has returned and the runner holds the three
\* benchmarks of the directory, each once: the file a.py collected, the
\* runner cleared, the directory that holds a.py collected.
ClearResetsWitness ==
    /\ calls = 3
    /\ pc = "none"
    /\ Len(benchmarks) = 3
    /\ { benchmarks[k] : k \in DOMAIN benchmarks } = {double, add, mul}

(***************************************************************************)
(* C25. Teardown failures are not isolated: an exception raised by the     *)
(* tearDown of a benchmark reaches the caller of run(), which returns no   *)
(* result; the outcome of that benchmark is not recorded and no hook of a  *)
(* later benchmark is called; and it is the only exception of a hook that  *)
(* reaches the caller.                                                     *)
(***************************************************************************)
TeardownPropagates ==
    /\ \A j \in DOMAIN benchmarks :
          RaisedIn("tearDown", j) =>
             /\ pc = "raised"
             /\ result = None
             /\ log[Len(log)].call = "tearDown" /\ log[Len(log)].of = j
             /\ error = Raised(log[Len(log)].outcome)
             /\ Len(results) = j - 1
             /\ \A l \in DOMAIN benchmarks :
                   l > j => \A k \in HookCalls : log[k].of # l
    /\ (pc = "raised" /\ HookCalled) =>
          /\ log[Len(log)].call = "tearDown"
          /\ log[Len(log)].outcome \in Messages

\* The tearDown of the second of three benchmarks has raised after its
\* function had raised: the run has raised, holds the outcome of the first
\* benchmark only and has not set up the third.
TeardownPropagatesWitness ==
    /\ pc = "raised"
    /\ Len(benchmarks) = 3
    /\ RaisedIn("fn", 2)
    /\ RaisedIn("tearDown", 2)
    /\ Len(results) = 1
    /\ CallsOf("setUp", 3) = {}

(***************************************************************************)
(* C26. Memoized collection: run() collects only when the runner holds no  *)
(* benchmark; on a runner that holds benchmarks it leaves the collection   *)
(* as it is and executes it, whatever path and tags it is given (it does   *)
(* not even raise on a path that does not exist); and the collection       *)
(* changes through collect(), clear() and the collection of a run() on an  *)
(* empty runner only, never in the validation, the context aggregation or  *)
(* the execution of a run.                                                 *)
(***************************************************************************)
\* The step is a call of collect() or of clear().
CollectOrClear ==
    \/ Clear
    \/ \E path \in Paths, tags \in Tags :
          \E files \in PyFiles(path) : Collect(path, tags, files)

\* The step is a call made on the runner.
IsCall == pc = "idle" /\ calls' = calls + 1

MemoizedCollection ==
    /\ [][/\ benchmarks' # benchmarks =>
                (IsCall /\ (benchmarks = <<>> \/ CollectOrClear))
          /\ (IsCall /\ benchmarks # <<>>) =>
                \/ /\ benchmarks' = benchmarks
                   /\ pc' \in {"provider", "setUp", "raised"}
                   /\ pc' = "raised" => CheckRaised(pc', error')
                \/ CollectOrClear
          /\ (IsCall /\ benchmarks = <<>>) =>
                \E path \in Paths, tags \in Tags : \E files \in PyFiles(path) :
                   benchmarks' = collect(<<>>, path, tags, files).benchmarks]_vars
    /\ [](/\ \A k \in HookCalls : log[k].of \in DOMAIN benchmarks
          /\ pc = "returned" =>
                /\ Len(result.benchmarks) = Len(benchmarks)
                /\ \A j \in DOMAIN benchmarks :
                      /\ Cardinality(CallsOf("setUp", j)) = 1
                      /\ ReturnedFrom("setUp", j) =>
                            result.benchmarks[j]["name"] = benchmarks[j].fn)

\* A run has returned the outcomes of a collection that no collection of a
\* run yields: the one that two collect() calls of the same file left.
MemoizedCollectionWitness ==
    /\ pc = "returned"
    /\ calls = 3
    /\ benchmarks = <<mul, mul>>
    /\ Len(result.benchmarks) = 2
    /\ ReturnedFrom("setUp", 1) /\ ReturnedFrom("setUp", 2)

====
